---- MODULE Spec2Model ----
(***************************************************************************)
(* Model of the IMDb Top 250 chart extraction pipeline:                    *)
(*   IMDBapp/control_panel.py       (Flask control panel, fetch_chart)     *)
(*   IMDBapp/proyecto_imdb/spiders/imdb.py   (Scrapy spider, parse)        *)
(*                                                                         *)
(* Abstraction of the data.  A page of markup is the pair of what the two  *)
(* scans of the code see in it, in document order: the anchors (hrefs) and *)
(* the <script type="application/ld+json"> blocks.  A string the code      *)
(* takes apart is a sequence: a raw limit of the code points of its        *)
(* characters, an item url of tokens, so that int() and the tconst regex   *)
(* are computed, not assumed.  A JSON value is                             *)
(* a record that keeps the shape tests of the code (isinstance, "in",      *)
(* iterability) and the url; the payload fields name, image, genre, ...    *)
(* are copied verbatim by item.get() and take part in no decision.         *)
(***************************************************************************)
EXTENDS Integers, Sequences, FiniteSets, TLC

\* pc              position of the invocation (idle, wait1, wait2, done, failed;
\*                 parse/panel and crawl/spider for the two parsers)
\* raw             the submitted form (request.form of preview)
\* filters, url    the ChartFilters of the route and the URL built from them
\* requests        the GETs issued so far by fetch_chart (url, Accept-Language)
\* responses       what came back for them (exception, status, body length)
\* resp            the response fetch_chart works on after the fetch
\* result, error   what the route gets: the FetchResult, or an exception
\* html            the markup handed to the parser
\* rank_by_tconst  the rank index of the last parse
\* results         the records of the last parse, or its exception; for the
\*                 spider, the items yielded so far
\* spider_i        the list position at which the spider's generator is
\*                 suspended (the i of its yield), 0 when it is not
VARIABLES pc, raw, filters, url, requests, responses, resp, result, error,
          html, rank_by_tconst, results, spider_i

vars == <<pc, raw, filters, url, requests, responses, resp, result, error,
          html, rank_by_tconst, results, spider_i>>

-----------------------------------------------------------------------------
(* Bounds of the model *)

MaxRawLen == 3
MaxAnchors == 3
MaxElems == 3
MaxBlocks == 2
MaxItems == 3

-----------------------------------------------------------------------------
(* Generic helpers *)

Min(a, b) == IF a < b THEN a ELSE b

Max(a, b) == IF a > b THEN a ELSE b

\* Python's seq[:n] for any integer n (a negative n counts from the end).
SliceTo(seq, n) ==
    IF n >= 0 THEN SubSeq(seq, 1, Min(n, Len(seq)))
    ELSE SubSeq(seq, 1, Max(0, Len(seq) + n))

SeqsUpTo(S, n) == UNION {[1..k -> S] : k \in 0..n}

\* Mapping with key k set to v (dict item assignment).
Put(d, k, v) == [x \in (DOMAIN d) \cup {k} |-> IF x = k THEN v ELSE d[x]]

EmptyDict == [x \in {} |-> 0]

-----------------------------------------------------------------------------
(* Fixed tables of control_panel.py *)

DEFAULT_CHART_URL == "https://www.imdb.com/es-es/chart/top/?ref_=hm_nv_menu"

SORT_OPTIONS ==
    {"RANKING", "USER_RATING", "RELEASE_DATE", "USER_RATING_COUNT",
     "TITLE_REGIONAL", "POPULARITY", "RUNTIME"}

SORT_PARAM_VALUES ==
    [k \in {"USER_RATING", "RELEASE_DATE", "USER_RATING_COUNT",
            "TITLE_REGIONAL", "POPULARITY", "RUNTIME"} |->
        CASE k = "USER_RATING" -> "user_rating"
          [] k = "RELEASE_DATE" -> "release_date"
          [] k = "USER_RATING_COUNT" -> "user_rating_count"
          [] k = "TITLE_REGIONAL" -> "title_regional"
          [] k = "POPULARITY" -> "popularity"
          [] k = "RUNTIME" -> "runtime"]

LimitDefault == 50
LimitMin == 1
LimitMax == 250
ShortBody == 10000
StatusAccepted == 202

LangFirst == "es-ES,es;q=0.9,en;q=0.8"
LangRetry == "en-US,en;q=0.9"

-----------------------------------------------------------------------------
(* Filter Normalizer: _normalize_limit, _normalize_sort,                   *)
(* _normalize_direction.  A raw limit is the sequence of the code points   *)
(* of its characters (<<45, 57>> is "-9"); a raw sort or direction is      *)
(* compared whole and stays a string.                                      *)

\* The whitespace int() strips: C isspace for ASCII (\t \n \v \f \r, blank)
\* and, beyond ASCII, the characters str.isspace() accepts (U+0085, U+00A0,
\* U+1680, U+2000-U+200A, U+2028, U+2029, U+202F, U+205F, U+3000).  The ASCII
\* separators U+001C-U+001F are whitespace for str.strip(), not for int().
AsciiSpace == {9, 10, 11, 12, 13, 32}

UnicodeSpace ==
    {133, 160, 5760} \cup (8192..8202) \cup {8232, 8233, 8239, 8287, 12288}

IsSpace(c) == c \in AsciiSpace \cup UnicodeSpace

\* The code point of digit zero of every run of decimal digits (category Nd,
\* Unicode 14.0): each run holds the digits 0 to 9 in order.
NdZeros ==
    {48, 1632, 1776, 1984, 2406, 2534, 2662, 2790, 2918, 3046, 3174, 3302, 3430,
     3558, 3664, 3792, 3872, 4160, 4240, 6112, 6160, 6470, 6608, 6784, 6800,
     6992, 7088, 7232, 7248, 42528, 43216, 43264, 43472, 43504, 43600, 44016,
     65296, 66720, 68912, 69734, 69872, 69942, 70096, 70384, 70736, 70864,
     71248, 71360, 71472, 71904, 72016, 72784, 73040, 73120, 92768, 92864,
     93008, 120782, 120792, 120802, 120812, 120822, 123200, 123632, 125264,
     130032}

\* The characters int() reads as a decimal digit.
Digits == UNION {z..(z + 9) : z \in NdZeros}

DigitVal(c) == c - (CHOOSE z \in NdZeros : c \in z..(z + 9))

\* s without its leading whitespace.
LStrip(s) ==
    IF \A i \in 1..Len(s) : IsSpace(s[i]) THEN <<>>
    ELSE SubSeq(s,
                CHOOSE i \in 1..Len(s) :
                    ~IsSpace(s[i]) /\ \A j \in 1..(i - 1) : IsSpace(s[j]),
                Len(s))

\* s without its trailing whitespace.
RStrip(s) ==
    IF \A i \in 1..Len(s) : IsSpace(s[i]) THEN <<>>
    ELSE SubSeq(s, 1,
                CHOOSE i \in 1..Len(s) :
                    ~IsSpace(s[i]) /\ \A j \in (i + 1)..Len(s) : IsSpace(s[j]))

Strip(s) == RStrip(LStrip(s))

\* "_" between two digits of a literal.
Underscore == {95}

\* "+" and "-".
Signs == {43, 45}

\* The digit part of an int() literal: digits, single underscores between.
DigitsOk(d) ==
    /\ d # <<>>
    /\ \A i \in 1..Len(d) : d[i] \in Digits \cup Underscore
    /\ d[1] \in Digits
    /\ d[Len(d)] \in Digits
    /\ \A i \in 1..(Len(d) - 1) : ~(d[i] \in Underscore /\ d[i + 1] \in Underscore)

DigitCount(d) == Cardinality({i \in 1..Len(d) : d[i] \in Digits})

RECURSIVE DigitsValue(_, _)
DigitsValue(d, acc) ==
    IF d = <<>> THEN acc
    ELSE IF Head(d) \in Underscore THEN DigitsValue(Tail(d), acc)
    ELSE DigitsValue(Tail(d), 10 * acc + DigitVal(Head(d)))

\* The most digits int() converts (sys.get_int_max_str_digits() by default);
\* a longer literal raises ValueError.
MaxStrDigits == 4300

\* Python's int(str): [ok |-> parsed, val |-> value].  ok = FALSE is ValueError.
PyInt(s) ==
    LET t == Strip(s)
        signed == t # <<>> /\ Head(t) \in Signs
        d == IF signed THEN Tail(t) ELSE t
    IN  IF DigitsOk(d) /\ DigitCount(d) <= MaxStrDigits
        THEN [ok |-> TRUE,
              val |-> IF signed /\ Head(t) = 45 THEN 0 - DigitsValue(d, 0)
                      ELSE DigitsValue(d, 0)]
        ELSE [ok |-> FALSE, val |-> 0]

_normalize_limit(value) ==
    LET n == PyInt(value)
    IN  IF ~n.ok THEN LimitDefault
        ELSE Max(LimitMin, Min(LimitMax, n.val))

_normalize_sort(value) == IF value \in SORT_OPTIONS THEN value ELSE "RANKING"

_normalize_direction(value) == IF value \in {"asc", "desc"} THEN value ELSE "desc"

\* A form field: present with a value, or missing from the form.
Field(v) == [present |-> TRUE, value |-> v]

AbsentField(dummy) == [present |-> FALSE, value |-> dummy]

\* request.form.get(name, default)
FormGet(field, default) == IF field.present THEN field.value ELSE default

ChartFilters(limit, sort, direction) ==
    [limit |-> limit, sort |-> sort, direction |-> direction]

\* The filters a route builds from the submitted form (preview, download_json,
\* api_movies).
FormFilters(form) ==
    ChartFilters(_normalize_limit(FormGet(form.limit, <<53, 48>>)),
                 _normalize_sort(FormGet(form.sort, "RANKING")),
                 _normalize_direction(FormGet(form.direction, "desc")))

-----------------------------------------------------------------------------
(* URL Builder: build_chart_url.  The URL is the sequence of its pieces.   *)

build_chart_url(f) ==
    IF f.sort = "RANKING" THEN <<DEFAULT_CHART_URL>>
    ELSE IF f.sort \notin DOMAIN SORT_PARAM_VALUES THEN <<DEFAULT_CHART_URL>>
    ELSE <<DEFAULT_CHART_URL, "&sort=", SORT_PARAM_VALUES[f.sort], "%2C",
           f.direction>>

-----------------------------------------------------------------------------
(* Markup.  An anchor is what the rank regex                               *)
(*   /title/(tt\d+)/\?ref_=chttp_t_(\d+)                                   *)
(* sees of one href: whether it matches, the two groups, and whether the   *)
(* anchor carries the class the spider selects (a.ipc-title-link-wrapper). *)

Anchor(t, r, w) ==
    [match |-> TRUE, tconst |-> t, rank |-> r, wrapper |-> w, huge |-> FALSE]

\* A matching anchor whose rank group has more than MaxStrDigits digits:
\* int(rank) raises ValueError.
HugeAnchor(t, w) ==
    [match |-> TRUE, tconst |-> t, rank |-> 0, wrapper |-> w, huge |-> TRUE]

OtherAnchor ==
    [match |-> FALSE, tconst |-> "", rank |-> 0, wrapper |-> TRUE, huge |-> FALSE]

\* An item url: absent (None), a non-string JSON value, or a string.
UrlAbsent == [kind |-> "absent", text |-> <<>>]

UrlNonStr == [kind |-> "nonstr", text |-> <<>>]

UrlStr(toks) == [kind |-> "str", text |-> toks]

TitleUrl(t) == UrlStr(<<"https://www.imdb.com", "/title/", t, "/">>)

\* tt\d+ tokens of the model's alphabet.
Tconsts == {"tt1", "tt2", "tt3"}

\* re.search(r"/title/(tt\d+)/", url): the first match, "" when none.
RECURSIVE TconstSearch(_, _)
TconstSearch(toks, i) ==
    IF i + 2 > Len(toks) THEN ""
    ELSE IF toks[i] = "/title/" /\ toks[i + 1] \in Tconsts /\ toks[i + 2] = "/"
         THEN toks[i + 1]
         ELSE TconstSearch(toks, i + 1)

\* tconst of lines 143-144: None (here "") unless url is a str that matches.
TconstOf(u) == IF u.kind = "str" THEN TconstSearch(u.text, 1) ELSE ""

\* One entry of itemListElement.
ScalarElem == [isDict |-> FALSE, itemIsDict |-> FALSE, url |-> UrlAbsent]

NoItemElem == [isDict |-> TRUE, itemIsDict |-> FALSE, url |-> UrlAbsent]

MovieElem(u) == [isDict |-> TRUE, itemIsDict |-> TRUE, url |-> u]

\* The value of the itemListElement field.  Iterating a JSON string gives its
\* characters and iterating an object gives its keys: entries that are no dict.
ListValue(k, es) == [kind |-> k, elems |-> es]

Iterable(lv) == lv.kind \in {"array", "string", "object"}

\* One ld+json script block.  load is the outcome of json.loads on its text:
\* "ok", "decode_error" (json.JSONDecodeError), or "raises" for the exceptions
\* the except clause does not name (ValueError for an integer literal of more
\* than MaxStrDigits digits, RecursionError for deep nesting).
BadBlock ==
    [load |-> "decode_error", isDict |-> FALSE, type |-> "", hasList |-> FALSE,
     list |-> ListValue("null", <<>>)]

RaisingBlock ==
    [load |-> "raises", isDict |-> FALSE, type |-> "", hasList |-> FALSE,
     list |-> ListValue("null", <<>>)]

ScalarBlock ==
    [load |-> "ok", isDict |-> FALSE, type |-> "", hasList |-> FALSE,
     list |-> ListValue("null", <<>>)]

ObjectBlock(t, has, lv) ==
    [load |-> "ok", isDict |-> TRUE, type |-> t, hasList |-> has, list |-> lv]

ItemListBlock(lv) == ObjectBlock("ItemList", TRUE, lv)

Page(as, bs) == [anchors |-> as, blocks |-> bs]

-----------------------------------------------------------------------------
(* Rank Extractor.  A build gives the index, or stops at the anchor whose   *)
(* int(rank) raises: [err, idx].                                           *)

IndexOk(idx) == [err |-> FALSE, idx |-> idx]

IndexError(idx) == [err |-> TRUE, idx |-> idx]

\* control_panel.py: every match of the regex in the markup, first one wins.
RECURSIVE RankScanPanel(_, _, _)
RankScanPanel(anchors, i, idx) ==
    IF i > Len(anchors) THEN IndexOk(idx)
    ELSE LET a == anchors[i]
         IN  IF a.match /\ a.tconst \notin DOMAIN idx
             THEN IF a.huge THEN IndexError(idx)
                  ELSE RankScanPanel(anchors, i + 1, Put(idx, a.tconst, a.rank))
             ELSE RankScanPanel(anchors, i + 1, idx)

RankIndexPanel(page) == RankScanPanel(page.anchors, 1, EmptyDict)

\* imdb.py: the hrefs of a.ipc-title-link-wrapper, each match assigned.
RECURSIVE RankScanSpider(_, _, _)
RankScanSpider(anchors, i, idx) ==
    IF i > Len(anchors) THEN IndexOk(idx)
    ELSE LET a == anchors[i]
         IN  IF a.wrapper /\ a.match
             THEN IF a.huge THEN IndexError(idx)
                  ELSE RankScanSpider(anchors, i + 1, Put(idx, a.tconst, a.rank))
             ELSE RankScanSpider(anchors, i + 1, idx)

RankIndexSpider(page) == RankScanSpider(page.anchors, 1, EmptyDict)

-----------------------------------------------------------------------------
(* Structured-Data Extractor *)

Qualifies(b) == b.isDict /\ b.type = "ItemList" /\ b.hasList

\* The outcome of the loop over the script blocks: the position of the block
\* kept in data (0 for None), or the exception json.loads let through.
Selected(k) == [err |-> FALSE, at |-> k]

SelectError == [err |-> TRUE, at |-> 0]

RECURSIVE SelectFrom(_, _)
SelectFrom(blocks, i) ==
    IF i > Len(blocks) THEN Selected(0)
    ELSE IF blocks[i].load = "decode_error" THEN SelectFrom(blocks, i + 1)
    ELSE IF blocks[i].load = "raises" THEN SelectError
    ELSE IF Qualifies(blocks[i]) THEN Selected(i)
    ELSE SelectFrom(blocks, i + 1)

SelectItemList(blocks) == SelectFrom(blocks, 1)

-----------------------------------------------------------------------------
(* Merger/Normalizer *)

\* Mutant of ResolveRank: the fallback counts from 0 (enumerate without start=1).
ResolveRankZeroBased(idx, u, i) ==
    LET tconst == TconstOf(u)
    IN  IF tconst # "" /\ tconst \in DOMAIN idx THEN idx[tconst] ELSE i - 1

\* rank of lines 145 and 149: the index value, else the position i.
ResolveRank(idx, u, i) ==
    LET tconst == TconstOf(u)
    IN  IF tconst # "" /\ tconst \in DOMAIN idx THEN idx[tconst] ELSE i

MovieRecord(idx, e, i) == [rank |-> ResolveRank(idx, e.url, i), url |-> e.url]

\* Mutant of MergeLoop: the fallback is the position among the emitted records.
RECURSIVE MergeLoopOutputPos(_, _, _, _)
MergeLoopOutputPos(elems, i, idx, acc) ==
    IF i > Len(elems) THEN acc
    ELSE IF ~elems[i].isDict \/ ~elems[i].itemIsDict
         THEN MergeLoopOutputPos(elems, i + 1, idx, acc)
    ELSE MergeLoopOutputPos(elems, i + 1, idx,
             Append(acc, [rank |-> ResolveRank(idx, elems[i].url, Len(acc) + 1),
                          url |-> elems[i].url]))

\* for i, element in enumerate(itemListElement, start=1)
RECURSIVE MergeLoop(_, _, _, _)
MergeLoop(elems, i, idx, acc) ==
    IF i > Len(elems) THEN acc
    ELSE IF ~elems[i].isDict THEN MergeLoop(elems, i + 1, idx, acc)
    ELSE IF ~elems[i].itemIsDict THEN MergeLoop(elems, i + 1, idx, acc)
    ELSE MergeLoop(elems, i + 1, idx, Append(acc, MovieRecord(idx, elems[i], i)))

\* The outcome of a parse: the records, or the exception that ended it
\* (int() of a rank, json.loads, or enumerate() of a value that is not
\* iterable, which raises TypeError).
Parsed(ms) == [err |-> FALSE, movies |-> ms]

ParseError == [err |-> TRUE, movies |-> <<>>]

\* Lines 111-163, after the rank index idx is built.
MergeFrom(page, idx) ==
    LET s == SelectItemList(page.blocks)
    IN  IF s.err THEN ParseError
        ELSE IF s.at = 0 THEN Parsed(<<>>)
        ELSE IF ~Iterable(page.blocks[s.at].list) THEN ParseError
        ELSE Parsed(MergeLoop(page.blocks[s.at].list.elems, 1, idx, <<>>))

parse_top250_from_html(page) ==
    IF RankIndexPanel(page).err THEN ParseError
    ELSE MergeFrom(page, RankIndexPanel(page).idx)

\* ImdbSpider.parse, lines 58-61: the position of the next entry at or after i
\* that is a dict wrapping a dict item, 0 when the list is exhausted.
RECURSIVE SpiderAdvance(_, _)
SpiderAdvance(elems, i) ==
    IF i > Len(elems) THEN 0
    ELSE IF ~(elems[i].isDict /\ elems[i].itemIsDict) THEN SpiderAdvance(elems, i + 1)
    ELSE i

\* ImdbSpider.parse up to its first yield: TRUE when an exception ends it.
SpiderFails(page) ==
    \/ RankIndexSpider(page).err
    \/ SelectItemList(page.blocks).err
    \/ /\ SelectItemList(page.blocks).at # 0
       /\ ~Iterable(page.blocks[SelectItemList(page.blocks).at].list)

\* The entries the spider's loop iterates (none when data is None).
SpiderElems(page) ==
    IF SelectItemList(page.blocks).at = 0 THEN <<>>
    ELSE page.blocks[SelectItemList(page.blocks).at].list.elems

\* Number of ld+json script blocks in the markup (diagnostics).
LdJsonBlocks(page) == Len(page.blocks)

-----------------------------------------------------------------------------
(* Fetcher and Result Assembler: fetch_chart *)

Request(u, lang) == [url |-> u, lang |-> lang]

\* What requests.get gives back: a response, or an exception (exc).
Response(status, length, page) ==
    [exc |-> FALSE, status |-> status, length |-> length, page |-> page]

EmptyPage == Page(<<>>, <<>>)

GetFailed == [exc |-> TRUE, status |-> 0, length |-> 0, page |-> EmptyPage]

\* The part of a response kept in the log of responses.
Meta(r) == [exc |-> r.exc, status |-> r.status, length |-> r.length]

\* Mutant of NeedsRetry: a body of exactly 10,000 characters is retried too.
NeedsRetryInclusive(r) ==
    r.status = StatusAccepted \/ r.length = 0 \/ r.length <= ShortBody

\* Line 178: resp.status_code == 202 or not resp.text or len(resp.text) < 10000
NeedsRetry(r) == r.status = StatusAccepted \/ r.length = 0 \/ r.length < ShortBody

\* requests' Response.raise_for_status: HTTPError for 400 <= status < 600.
RaisesForStatus(r) == 400 <= r.status /\ r.status < 600

NoFilters == ChartFilters(0, "", "")

NoResult ==
    [url |-> <<>>, filters |-> NoFilters,
     diagnostics |-> [http_status |-> 0, html_length |-> 0, ldjson_blocks |-> 0],
     count |-> 0, movies |-> <<>>]

\* Mutant of FetchResult: the kept records are renumbered by output position.
FetchResultRenumbered(u, f, r, movies) ==
    [url |-> u, filters |-> f,
     diagnostics |-> [http_status |-> r.status, html_length |-> r.length,
                      ldjson_blocks |-> LdJsonBlocks(r.page)],
     count |-> Min(f.limit, Len(movies)),
     movies |-> [k \in 1..Len(SliceTo(movies, f.limit)) |->
                    [movies[k] EXCEPT !.rank = k]]]

\* Mutant of FetchResult: count is the limit, not the minimum.
FetchResultCountLimit(u, f, r, movies) ==
    [url |-> u, filters |-> f,
     diagnostics |-> [http_status |-> r.status, html_length |-> r.length,
                      ldjson_blocks |-> LdJsonBlocks(r.page)],
     count |-> f.limit,
     movies |-> SliceTo(movies, f.limit)]

\* Lines 185-206: the payload built from the final response and its records.
FetchResult(u, f, r, movies) ==
    [url |-> u, filters |-> f,
     diagnostics |-> [http_status |-> r.status, html_length |-> r.length,
                      ldjson_blocks |-> LdJsonBlocks(r.page)],
     count |-> Min(f.limit, Len(movies)),
     movies |-> SliceTo(movies, f.limit)]

\* Lines 182-206 on the final response r: an exception leaves the route without
\* a result (error), otherwise the payload is returned.
Complete(r) ==
    /\ resp' = r
    /\ IF RaisesForStatus(r)
       THEN /\ pc' = "failed"
            /\ error' = TRUE
            /\ UNCHANGED <<result, html, rank_by_tconst, results>>
       ELSE /\ html' = r.page
            /\ rank_by_tconst' = RankIndexPanel(r.page).idx
            /\ results' = parse_top250_from_html(r.page)
            /\ IF results'.err
               THEN pc' = "failed" /\ error' = TRUE /\ UNCHANGED result
               ELSE /\ pc' = "done"
                    /\ result' = FetchResult(url, filters, r, results'.movies)
                    /\ UNCHANGED error

\* Lines 168-177: the URL is built and the first GET is sent.
StartFetch(f) ==
    /\ filters' = f
    /\ url' = build_chart_url(f)
    /\ requests' = <<Request(build_chart_url(f), LangFirst)>>
    /\ pc' = "wait1"
    /\ UNCHANGED <<responses, resp, result, error, html, rank_by_tconst, results,
                   spider_i>>

-----------------------------------------------------------------------------
(* Inputs of the model *)

NoForm ==
    [limit |-> AbsentField(<<>>), sort |-> AbsentField(""),
     direction |-> AbsentField("")]

\* "0", "9", ARABIC-INDIC DIGIT THREE, "-", "+", blank, tab, "_", "x".
RawChars == {48, 57, 1635, 45, 43, 32, 9, 95, 120}

\* A literal of MaxStrDigits + 1 digits "9".
LongLimit == [i \in 1..(MaxStrDigits + 1) |-> 57]

RawLimits ==
    {Field(s) : s \in SeqsUpTo(RawChars, MaxRawLen)}
    \cup {Field(LongLimit), AbsentField(<<>>)}

RawSorts ==
    {Field(s) : s \in SORT_OPTIONS \cup {"runtime", ""}} \cup {AbsentField("")}

RawDirections == {Field(s) : s \in {"asc", "desc", "ASC", ""}} \cup {AbsentField("")}

AllForms == [limit : RawLimits, sort : RawSorts, direction : RawDirections]

\* The forms of the fetch specification: limits 1, 2 and the default 50.
FetchForms ==
    [limit : {Field(<<48>>), Field(<<50>>), AbsentField(<<>>)},
     sort : {Field("RANKING"), Field("RUNTIME")},
     direction : {Field("asc")}]

Statuses == {200, 202, 304, 404}

BodyLengths == {0, 9999, 10000}

TconstSeq == <<"tt1", "tt2", "tt3">>

\* One chart anchor per title, their ranks a permutation of the positions.
ChartAnchors ==
    {[i \in 1..3 |-> Anchor(TconstSeq[i], f[i], TRUE)] :
        f \in {g \in [1..3 -> 1..3] : \A a, b \in 1..3 : g[a] = g[b] => a = b}}

ChartLists == SeqsUpTo({MovieElem(TitleUrl(t)) : t \in Tconsts}, MaxItems)

ChartPages ==
    {Page(a, <<ItemListBlock(ListValue("array", l))>>) :
        a \in ChartAnchors \cup {<<>>}, l \in ChartLists}

SelectBlocks ==
    {BadBlock, RaisingBlock, ScalarBlock,
     ObjectBlock("Movie", TRUE, ListValue("array", <<MovieElem(TitleUrl("tt3"))>>)),
     ObjectBlock("ItemList", FALSE, ListValue("array", <<>>)),
     ItemListBlock(ListValue("array", <<>>)),
     ItemListBlock(ListValue("array", <<MovieElem(TitleUrl("tt1"))>>)),
     ItemListBlock(ListValue("array", <<MovieElem(TitleUrl("tt2"))>>)),
     ItemListBlock(ListValue("null", <<>>))}

SelectPages ==
    {Page(<<Anchor("tt1", 5, TRUE)>>, bs) : bs \in SeqsUpTo(SelectBlocks, MaxBlocks)}

FetchPages == ChartPages \cup SelectPages

\* A body of length 0 holds no markup.
Responses ==
    {Response(st, 0, EmptyPage) : st \in Statuses}
    \cup {Response(st, n, p) : st \in Statuses, n \in BodyLengths \ {0},
                               p \in FetchPages}
    \cup {GetFailed}

ParseTconsts == {"tt1", "tt2"}

AnchorRanks == {0, 1, 5}

AnchorAlphabet ==
    {Anchor(t, r, w) : t \in ParseTconsts, r \in AnchorRanks, w \in BOOLEAN}
    \cup {HugeAnchor("tt1", w) : w \in BOOLEAN}
    \cup {OtherAnchor}

UrlAlphabet ==
    {UrlAbsent, UrlNonStr, TitleUrl("tt1"), TitleUrl("tt2"),
     UrlStr(<<"https://www.imdb.com", "/title/", "tt1">>),
     UrlStr(<<"https://www.imdb.com", "/name/", "nm1", "/">>)}

ElemAlphabet == {ScalarElem, NoItemElem} \cup {MovieElem(u) : u \in UrlAlphabet}

ListValues ==
    {ListValue("array", es) : es \in SeqsUpTo(ElemAlphabet, MaxElems)}
    \cup {ListValue("null", <<>>), ListValue("number", <<>>),
          ListValue("string", <<ScalarElem, ScalarElem>>),
          ListValue("object", <<ScalarElem>>)}

SampleLists ==
    {<<MovieElem(TitleUrl("tt1")), MovieElem(TitleUrl("tt2"))>>,
     <<ScalarElem, MovieElem(TitleUrl("tt2")), MovieElem(TitleUrl("tt1"))>>,
     <<NoItemElem, MovieElem(UrlNonStr), MovieElem(TitleUrl("tt1"))>>}

SampleAnchors ==
    {<<>>,
     <<Anchor("tt1", 5, TRUE)>>,
     <<Anchor("tt2", 0, TRUE), Anchor("tt1", 1, FALSE)>>,
     <<Anchor("tt2", 5, TRUE), OtherAnchor, Anchor("tt2", 1, TRUE)>>}

AnchorPages ==
    {Page(a, <<ItemListBlock(ListValue("array", l))>>) :
        a \in SeqsUpTo(AnchorAlphabet, MaxAnchors), l \in SampleLists}

ListPages == {Page(a, <<ItemListBlock(lv)>>) : a \in SampleAnchors, lv \in ListValues}

ParsePages == AnchorPages \cup ListPages \cup SelectPages

-----------------------------------------------------------------------------
(* The control panel: a route normalizes the form and fetches the chart *)

InitCommon ==
    /\ filters = NoFilters
    /\ url = <<>>
    /\ requests = <<>>
    /\ responses = <<>>
    /\ resp = Response(0, 0, EmptyPage)
    /\ result = NoResult
    /\ error = FALSE
    /\ rank_by_tconst = EmptyDict
    /\ results = Parsed(<<>>)
    /\ spider_i = 0

\* index(): the fixed default filters.
Index ==
    /\ pc = "idle"
    /\ StartFetch(ChartFilters(50, "RANKING", "desc"))
    /\ UNCHANGED raw

\* preview(): the filters of the submitted form, one of forms.
PreviewFrom(forms) ==
    /\ pc = "idle"
    /\ \E form \in forms :
          /\ raw' = form
          /\ StartFetch(FormFilters(form))

Preview == PreviewFrom(FetchForms)

\* preview() on any raw form.
PreviewAny == PreviewFrom(AllForms)

\* The first GET returns (line 177); an incomplete response is retried once
\* with the English Accept-Language (lines 178-180).  Of a response that is
\* retried only the status and the length are ever read (line 178): they are
\* kept in responses, and resp holds the response lines 182-206 work on.
Respond1 ==
    /\ pc = "wait1"
    /\ \E r \in Responses :
        /\ responses' = Append(responses, Meta(r))
        /\ IF r.exc
           THEN /\ pc' = "failed"
                /\ error' = TRUE
                /\ UNCHANGED <<requests, resp, result, html, rank_by_tconst, results>>
           ELSE IF NeedsRetry(r)
           THEN /\ requests' = Append(requests, Request(url, LangRetry))
                /\ pc' = "wait2"
                /\ UNCHANGED <<resp, result, error, html, rank_by_tconst, results>>
           ELSE /\ Complete(r)
                /\ UNCHANGED requests
    /\ UNCHANGED <<raw, filters, url, spider_i>>

\* The second GET returns (line 180): whatever it is, it is the final response.
Respond2 ==
    /\ pc = "wait2"
    /\ \E r \in Responses :
        /\ responses' = Append(responses, Meta(r))
        /\ IF r.exc
           THEN /\ pc' = "failed"
                /\ error' = TRUE
                /\ UNCHANGED <<resp, result, html, rank_by_tconst, results>>
           ELSE Complete(r)
    /\ UNCHANGED <<raw, filters, url, requests, spider_i>>

\* ImdbSpider.parse is a generator.  The first next() on it builds the rank
\* index, picks the block and runs the loop up to the first yield (lines
\* 35-83); it ends at once when an exception is raised or nothing is yielded.
SpiderStart ==
    /\ pc = "crawl"
    /\ rank_by_tconst' = RankIndexSpider(html).idx
    /\ IF SpiderFails(html)
       THEN /\ results' = ParseError
            /\ spider_i' = 0
            /\ pc' = "spider"
       ELSE LET j == SpiderAdvance(SpiderElems(html), 1)
            IN  IF j = 0
                THEN /\ results' = Parsed(<<>>)
                     /\ spider_i' = 0
                     /\ pc' = "spider"
                ELSE /\ results' =
                          Parsed(<<MovieRecord(RankIndexSpider(html).idx,
                                               SpiderElems(html)[j], j)>>)
                     /\ spider_i' = j
                     /\ pc' = "yield"
    /\ UNCHANGED <<raw, filters, url, requests, responses, resp, result, error, html>>

\* A later next(): the loop resumes after the yield at spider_i and runs to
\* the next yield, or to the end of the list.
SpiderNext ==
    /\ pc = "yield"
    /\ LET j == SpiderAdvance(SpiderElems(html), spider_i + 1)
       IN  IF j = 0
           THEN /\ pc' = "spider"
                /\ spider_i' = 0
                /\ UNCHANGED results
           ELSE /\ results' =
                     Parsed(Append(results.movies,
                                   MovieRecord(rank_by_tconst, SpiderElems(html)[j], j)))
                /\ spider_i' = j
                /\ pc' = "yield"
    /\ UNCHANGED <<raw, filters, url, requests, responses, resp, result, error, html,
                   rank_by_tconst>>

\* parse_top250_from_html on a page of markup.
ParsePanel ==
    /\ pc = "parse"
    /\ rank_by_tconst' = RankIndexPanel(html).idx
    /\ results' = parse_top250_from_html(html)
    /\ pc' = "panel"
    /\ UNCHANGED <<raw, filters, url, requests, responses, resp, result, error, html,
                   spider_i>>

\* The application: the control panel waits for a request, or the crawl hands
\* a downloaded page to the spider.
Init ==
    /\ InitCommon
    /\ raw = NoForm
    /\ \/ pc = "idle" /\ html = EmptyPage
       \/ pc = "crawl" /\ html \in FetchPages

Next == Index \/ Preview \/ Respond1 \/ Respond2 \/ SpiderStart \/ SpiderNext

Spec == Init /\ [][Next]_vars

\* The two parsers on the same pages of markup.
InitParse ==
    /\ InitCommon
    /\ raw = NoForm
    /\ pc \in {"parse", "crawl"}
    /\ html \in ParsePages

NextParse == ParsePanel \/ SpiderStart \/ SpiderNext

SpecParse == InitParse /\ [][NextParse]_vars

\* The normalizer on every raw form.
InitNormalize ==
    /\ InitCommon
    /\ pc = "idle"
    /\ raw = NoForm
    /\ html = EmptyPage

NextNormalize == PreviewAny

SpecNormalize == InitNormalize /\ [][NextNormalize]_vars

-----------------------------------------------------------------------------
(* Properties.  The expected values are stated from the contents of the    *)
(* page, without the loops of the code.                                    *)

\* Positions of the list entries that are an object wrapping an object item.
ValidIdx(elems) == {i \in 1..Len(elems) : elems[i].isDict /\ elems[i].itemIsDict}

\* Position in the list of the k-th valid entry.
KthValid(elems, k) ==
    CHOOSE i \in ValidIdx(elems) : Cardinality({j \in ValidIdx(elems) : j <= i}) = k

\* The rank the contract gives entry e at position i under index idx.
ExpectedRank(idx, e, i) ==
    IF e.url.kind = "str" /\ TconstOf(e.url) # "" /\ TconstOf(e.url) \in DOMAIN idx
    THEN idx[TconstOf(e.url)]
    ELSE i

ExpectedMovies(elems, idx) ==
    [k \in 1..Cardinality(ValidIdx(elems)) |->
        [rank |-> ExpectedRank(idx, elems[KthValid(elems, k)], KthValid(elems, k)),
         url |-> elems[KthValid(elems, k)].url]]

IsItemList(b) == b.load = "ok" /\ b.isDict /\ b.type = "ItemList" /\ b.hasList

\* Position of the first block that is an item list, 0 when there is none.
FirstQualifying(blocks) ==
    IF \E i \in 1..Len(blocks) : IsItemList(blocks[i])
    THEN CHOOSE i \in 1..Len(blocks) :
            IsItemList(blocks[i]) /\ \A j \in 1..(i - 1) : ~IsItemList(blocks[j])
    ELSE 0

\* Entries of the list of the first item list of the page (none without one).
ListElems(page) ==
    IF FirstQualifying(page.blocks) = 0 THEN <<>>
    ELSE page.blocks[FirstQualifying(page.blocks)].list.elems

\* Positions of the anchors a rank-index build scans.
ScannedPanel(anchors) == {i \in 1..Len(anchors) : anchors[i].match}

ScannedSpider(anchors) ==
    {i \in 1..Len(anchors) : anchors[i].match /\ anchors[i].wrapper}

\* idx maps every identifier scanned to the rank of its first anchor.
FirstWins(idx, anchors, scanned) ==
    /\ DOMAIN idx = {anchors[i].tconst : i \in scanned}
    /\ \A i \in scanned :
          (\A j \in scanned : anchors[j].tconst = anchors[i].tconst => i <= j)
              => idx[anchors[i].tconst] = anchors[i].rank

ParseDone == pc \in {"panel", "spider"}

\* C1: every emitted record's rank is an integer: the rank index's value for
\* the identifier of the item's url when there is one and it is mapped,
\* otherwise the item's 1-based position in the list, skipped entries counted.
C1_RankResolution ==
    (ParseDone /\ ~results.err) =>
        LET elems == ListElems(html)
        IN  /\ Len(results.movies) = Cardinality(ValidIdx(elems))
            /\ \A k \in 1..Len(results.movies) :
                  /\ results.movies[k].rank \in Int
                  /\ results.movies[k].rank =
                        ExpectedRank(rank_by_tconst, elems[KthValid(elems, k)],
                                     KthValid(elems, k))

\* C1 witness: a skipped entry, then an item without identifier that takes its
\* position 2, then an item whose identifier the index maps to 5.
C1_Witness ==
    /\ pc = "panel"
    /\ ~results.err
    /\ Len(ListElems(html)) = 3
    /\ ~ListElems(html)[1].isDict
    /\ Len(results.movies) = 2
    /\ TconstOf(results.movies[1].url) = ""
    /\ results.movies[1].rank = 2
    /\ TconstOf(results.movies[2].url) \in DOMAIN rank_by_tconst
    /\ results.movies[2].rank = 5

\* C2: the movies returned are the first limit records of the merged sequence,
\* in the order of the structured-data list, each with its cross-referenced
\* rank, not renumbered and not re-sorted.
C2_OrderAndTruncation ==
    pc = "done" =>
        LET expected == ExpectedMovies(ListElems(resp.page), rank_by_tconst)
        IN  /\ Len(result.movies) = Min(filters.limit, Len(expected))
            /\ \A k \in 1..Len(result.movies) : result.movies[k] = expected[k]

\* C2 witness: three items with anchor ranks 3, 1, 2 and limit 2 give two
\* records with ranks 3 then 1.
C2_Witness ==
    /\ pc = "done"
    /\ filters.limit = 2
    /\ Len(results.movies) = 3
    /\ results.movies[3].rank = 2
    /\ Len(result.movies) = 2
    /\ result.movies[1].rank = 3
    /\ result.movies[2].rank = 1

\* The build converts every rank it meets.
Converts(anchors, scanned) == \A i \in scanned : ~anchors[i].huge

\* C3: in both rank-index builds the index maps every identifier scanned to
\* the rank of its first anchor in document order, one entry per identifier.
C3_FirstOccurrenceWins ==
    /\ (pc = "panel" /\ Converts(html.anchors, ScannedPanel(html.anchors))) =>
          FirstWins(rank_by_tconst, html.anchors, ScannedPanel(html.anchors))
    /\ (pc \in {"yield", "spider"}
          /\ Converts(html.anchors, ScannedSpider(html.anchors))) =>
          FirstWins(rank_by_tconst, html.anchors, ScannedSpider(html.anchors))

\* C4: in every result returned, count is the length of movies and the
\* minimum of the limit and the number of parsed records.
C4_CountInvariant ==
    pc = "done" =>
        /\ result.filters = filters
        /\ result.count = Len(result.movies)
        /\ result.count = Min(filters.limit, Len(results.movies))

\* C4 witness: three parsed records and limit 1.
C4_Witness ==
    /\ pc = "done"
    /\ filters.limit = 1
    /\ Len(results.movies) = 3
    /\ result.count = 1
    /\ Len(result.movies) = 1

\* C5: at most two GETs; the second is sent exactly when the first returned a
\* response with status 202, an empty body or a body under 10,000 characters,
\* to the same URL with Accept-Language en-US,en;q=0.9; no third follows.
C5_RetryPolicy ==
    /\ Len(requests) <= 2
    /\ Len(responses) <= Len(requests)
    /\ pc \in {"done", "failed"} => Len(responses) = Len(requests)
    /\ Len(requests) >= 1 => requests[1] = [url |-> url, lang |-> "es-ES,es;q=0.9,en;q=0.8"]
    /\ Len(requests) = 2 <=>
          /\ Len(responses) >= 1
          /\ ~responses[1].exc
          /\ \/ responses[1].status = 202
             \/ responses[1].length = 0
             \/ responses[1].length < 10000
    /\ Len(requests) = 2 =>
          requests[2] = [url |-> requests[1].url, lang |-> "en-US,en;q=0.9"]

\* C5 witness: a 202 with a short body, retried once, answered by another 202:
\* the invocation ends with two requests.
C5_Witness ==
    /\ pc \in {"done", "failed"}
    /\ Len(requests) = 2
    /\ Len(responses) = 2
    /\ responses[1].status = 202
    /\ responses[1].length = 9999
    /\ responses[2].status = 202
    /\ responses[2].length = 9999

\* C6: a result is returned only when the final status is 2xx; every other
\* final status fails with an error.
C6_FailsUnless2xx ==
    pc = "done" => (200 <= resp.status /\ resp.status <= 299)

\* C7: the records come from the first block that parses, is an object of
\* type ItemList and has the list field; the blocks before it are skipped and
\* later blocks are not examined; with no such block the result is empty,
\* count 0, diagnostics present, and no error is raised.
C7_FirstItemListSelected ==
    /\ pc = "done" =>
          /\ result.diagnostics.ldjson_blocks = Len(resp.page.blocks)
          /\ result.diagnostics.http_status = resp.status
          /\ result.movies =
                SliceTo(ExpectedMovies(ListElems(resp.page), rank_by_tconst),
                        filters.limit)
          /\ FirstQualifying(resp.page.blocks) = 0 =>
                result.movies = <<>> /\ result.count = 0
    /\ (pc = "spider" /\ ~results.err) =>
          results.movies = ExpectedMovies(ListElems(html), rank_by_tconst)
    /\ results.err => FirstQualifying(html.blocks) # 0

\* C8: whatever the shape of the list field and of its entries, parsing ends
\* without an error and every well-formed entry yields its record.
C8_NeverAborts ==
    ParseDone =>
        /\ ~results.err
        /\ Len(results.movies) = Cardinality(ValidIdx(ListElems(html)))

\* C9 as claimed: every emitted rank is at least 1.
C9_RankPositive ==
    ParseDone => \A k \in 1..Len(results.movies) : results.movies[k].rank >= 1

\* C9 amended: every emitted rank is a non-negative integer; it is at least 1
\* when it is a positional fallback, and a rank of 0 is the value of an anchor
\* suffix 0 that the rank index holds for the item's identifier.
C9_RankNonNegative ==
    ParseDone =>
        \A k \in 1..Len(results.movies) :
            LET m == results.movies[k]
            IN  /\ m.rank \in Nat
                /\ m.rank = 0 =>
                      /\ TconstOf(m.url) \in DOMAIN rank_by_tconst
                      /\ \E i \in 1..Len(html.anchors) :
                            /\ html.anchors[i].match
                            /\ html.anchors[i].tconst = TconstOf(m.url)
                            /\ html.anchors[i].rank = 0

\* C9 witness: a record of rank 0 from the index beside a positional rank.
C9_Witness ==
    /\ pc = "panel"
    /\ Len(results.movies) = 2
    /\ results.movies[1].rank = 0
    /\ TconstOf(results.movies[2].url) \notin DOMAIN rank_by_tconst
    /\ results.movies[2].rank = 2

\* s is an integer literal: optional whitespace around an optional sign and
\* decimal digits, single underscores allowed between digits.
IsIntLiteral(s) ==
    \E a \in 1..Len(s) :
        /\ \A i \in 1..(a - 1) : IsSpace(s[i])
        /\ ~IsSpace(s[a])
        /\ \E b \in a..Len(s) :
              /\ \A i \in (b + 1)..Len(s) : IsSpace(s[i])
              /\ s[b] \in Digits
              /\ \/ s[a] \in Digits
                 \/ s[a] \in Signs /\ a < b /\ s[a + 1] \in Digits
              /\ \A i \in (a + 1)..b : s[i] \in Digits \cup Underscore
              /\ \A i \in (a + 1)..(b - 1) :
                    ~(s[i] \in Underscore /\ s[i + 1] \in Underscore)

\* The integer v clamped into the range of the limit.
Clamped(v) == IF v < 1 THEN 1 ELSE IF v > 250 THEN 250 ELSE v

\* C10: normalization always yields a limit in [1,250] (an integer input is
\* read and clamped, anything non-numeric or absent gives 50), a recognized
\* sort (RANKING for anything else) and a direction asc or desc (desc for
\* anything else).
C10_NormalizerTotal ==
    pc # "idle" =>
        /\ pc = "wait1"
        /\ filters.limit \in 1..250
        /\ (raw.limit.present /\ IsIntLiteral(raw.limit.value)) =>
              /\ PyInt(raw.limit.value).ok
              /\ filters.limit = Clamped(PyInt(raw.limit.value).val)
        /\ (~raw.limit.present \/ ~IsIntLiteral(raw.limit.value)) =>
              filters.limit = 50
        /\ filters.sort \in SORT_OPTIONS
        /\ filters.sort =
              IF raw.sort.present /\ raw.sort.value \in SORT_OPTIONS
              THEN raw.sort.value ELSE "RANKING"
        /\ filters.direction \in {"asc", "desc"}
        /\ filters.direction =
              IF raw.direction.present /\ raw.direction.value \in {"asc", "desc"}
              THEN raw.direction.value ELSE "desc"

====
